---- MODULE Spec2Model ----
(***************************************************************************)
(* Source coordinator, source gateway, single-source cache and call        *)
(* manager of gps                                                          *)
(* (src/deducers.go, src/unnamed/part_000).                                *)
(*                                                                         *)
(* Spec        : the coordinator, getSourceGatewayFor and its coalescing   *)
(*               worker goroutine, one call per caller.                    *)
(* FairSpec    : Spec with weak fairness of every goroutine step.          *)
(* GatewaySpec : one sourceGateway used by several threads.                *)
(* CacheSpec   : one singleSourceCacheMemory used by several threads.      *)
(* ManagerSpec : one callManager, its setUpCall and the disposers.         *)
(***************************************************************************)
EXTENDS Integers, Sequences, FiniteSets, TLC

\* ---------------------------------------------------------------- bounds
NumCallers == 2
NumThreads == 2
MaxOps == 2
MaxUpstreamChanges == 1
NumCacheThreads == 2
MaxCacheOps == 3
NumCalls == 2
MaxTime == 2

\* ------------------------------------------------------- readiness bits
sourceIsSetUp == 1
sourceExistsUpstream == 2
sourceExistsLocally == 4
sourceHasLatestVersionList == 8
sourceHasLatestLocally == 16

Flags == {sourceIsSetUp, sourceExistsUpstream, sourceExistsLocally,
          sourceHasLatestVersionList, sourceHasLatestLocally}

\* srcState & flag != 0
HasBit(s, f) == (s \div f) % 2 = 1

\* srcState |= flag
SetBit(s, f) == IF HasBit(s, f) THEN s ELSE s + f

\* a | b, for a mask b that is a set of flags
BitOr(fs) == LET RECURSIVE Sum(_)
                 Sum(S) == IF S = {} THEN 0
                           ELSE LET x == CHOOSE y \in S : TRUE
                                IN  x + Sum(S \ {x})
             IN Sum(fs)

\* todo := (^sg.srcState) & wanted
Todo(s, wanted) == BitOr({f \in Flags : HasBit(wanted, f) /\ ~HasBit(s, f)})

\* the highest bit of todo: the loop run from the top bit down.
HighestFlag(todo) == CHOOSE f \in Flags :
                        /\ HasBit(todo, f)
                        /\ \A g \in Flags : HasBit(todo, g) => g <= f

\* the lowest bit of todo: the first i of the loop with todo&flag != 0
LowestFlag(todo) == CHOOSE f \in Flags :
                       /\ HasBit(todo, f)
                       /\ \A g \in Flags : HasBit(todo, g) => f <= g

\* ----------------------------------------------------------- map helpers
Put(m, k, v) == [x \in DOMAIN m \cup {k} |-> IF x = k THEN v ELSE m[x]]

Del(m, k) == [x \in DOMAIN m \ {k} |-> m[x]]

EmptyMap == [x \in {} |-> 0]

\* ------------------------------------------------- coordinator universe
Callers == 1 .. NumCallers

\* normalized identifiers; "x/y" and "https://x/y" are aliases of one source
Names == {"x/y", "https://x/y"}

URLs == {"https://x/y", "ssh://x/y"}

\* the URLs maybeSource.try may settle on for a normalized name
Candidates(n) == IF n = "x/y" THEN {"https://x/y", "ssh://x/y"}
                 ELSE {"https://x/y"}

NilGw == 0

VARIABLES
    srcs,        \* sc.srcs: URL -> gateway (a gateway is named by its creator)
    nameToURL,   \* sc.nameToURL: normalized name -> URL
    protoSrcs,   \* sc.protoSrcs: normalized name -> sequence of return chans
    srcmut,      \* writer holding sc.srcmut, 0 when free
    psrcmut,     \* holder of sc.psrcmut, 0 when free
    callers,     \* per caller: position in getSourceGatewayFor and result
    workers,     \* per caller: position of its coalescing goroutine
    gws,         \* gateways built by workers: srcState, src, url
    deduceCalls, \* number of deducer.deduceRootPath(n) invocations, per name
    sg,          \* the gateway of GatewaySpec: srcState, src, url
    mu,          \* sg.mu: the thread holding it, 0 when free
    cache,       \* sg.cache: infos, ptrees, vMap, rMap
    threads,     \* per thread: the gateway operation it runs and its position
    upstream,    \* the version list the source driver reads upstream
    upChanges,   \* number of changes of upstream so far
    started,     \* number of gateway operations called so far
    notFound,    \* unpaired versions a refreshed convertToRevision did not find
    driverOk,    \* successful sg.src.getManifestAndLock / listPackages calls
    cmut,        \* c.mut of a cache used on its own: the holder, 0 when free
    cthreads,    \* per thread: the cache operation it runs and its position
    cacheOps,    \* number of cache operations called so far
    running,     \* cm.running: callInfo -> timeCount
    ran,         \* cm.ran: callType -> durCount
    calls,       \* per call of setUpCall: its position and its callInfo
    now,         \* time.Now()
    cancelled    \* cm.ctx.Err() != nil

coordVars == <<srcs, nameToURL, protoSrcs, srcmut, psrcmut, callers, workers,
               gws, deduceCalls>>

gatewayVars == <<sg, mu, cache, threads, upstream, upChanges, started,
                 notFound, driverOk>>

cacheVars == <<cmut, cthreads, cacheOps>>

managerVars == <<running, ran, calls, now, cancelled>>

otherVars == <<cacheVars, managerVars>>

vars == <<srcs, nameToURL, protoSrcs, srcmut, psrcmut, callers, workers,
          gws, deduceCalls, sg, mu, cache, threads, upstream, upChanges,
          started, notFound, driverOk, cmut, cthreads, cacheOps, running, ran,
          calls, now, cancelled>>

newSourceGateway == [srcState |-> 0, src |-> FALSE, url |-> ""]


\* ----------------------------------------------------- single-source cache
\* Version values: a Revision, an UnpairedVersion or a PairedVersion
Rev(r) == [kind |-> "rev", u |-> "", r |-> r]

Unpaired(u) == [kind |-> "unpaired", u |-> u, r |-> ""]

Paired(u, r) == [kind |-> "paired", u |-> u, r |-> r]

newMemoryCache ==
    [infos |-> EmptyMap, ptrees |-> EmptyMap, vMap |-> EmptyMap, rMap |-> EmptyMap]

\* if _, has := c.rMap[r]; !has { c.rMap[r] = nil }
EnsureRev(rMap, r) == IF r \in DOMAIN rMap THEN rMap ELSE Put(rMap, r, <<>>)

setProjectInfo(c, r, an, pi) ==
    [c EXCEPT !.infos = Put(c.infos, an,
                            Put(IF an \in DOMAIN c.infos THEN c.infos[an]
                                ELSE EmptyMap, r, pi)),
              !.rMap = EnsureRev(c.rMap, r)]

\* (projectInfo, bool)
getProjectInfo(c, r, an) == an \in DOMAIN c.infos /\ r \in DOMAIN c.infos[an]

\* setPackageTree without the rMap entry of lines 109-111.
setPackageTreeNoRev(c, r, ptree) ==
    [c EXCEPT !.ptrees = Put(c.ptrees, r, ptree)]

setPackageTree(c, r, ptree) ==
    [c EXCEPT !.ptrees = Put(c.ptrees, r, ptree),
              !.rMap = EnsureRev(c.rMap, r)]

getPackageTree(c, r) == r \in DOMAIN c.ptrees

\* the loop body without the append to rMap[r].
StorePairVMapOnly(c, pv) ==
    [c EXCEPT !.vMap = Put(c.vMap, pv.u, pv.r),
              !.rMap = EnsureRev(c.rMap, pv.r)]

\* the loop body of storeVersionMap for one paired version
StorePair(c, pv) ==
    [c EXCEPT !.vMap = Put(c.vMap, pv.u, pv.r),
              !.rMap = Put(c.rMap, pv.r,
                           Append(IF pv.r \in DOMAIN c.rMap THEN c.rMap[pv.r]
                                  ELSE <<>>, pv.u))]

RECURSIVE StoreAll(_, _, _)
StoreAll(c, versionList, i) ==
    IF i > Len(versionList) THEN c
    ELSE StoreAll(StorePair(c, versionList[i]), versionList, i + 1)

storeVersionMap(c, versionList, flush) ==
    StoreAll(IF flush
             THEN [c EXCEPT !.rMap = [r \in DOMAIN c.rMap |-> <<>>],
                            !.vMap = EmptyMap]
             ELSE c,
             versionList, 1)

\* the bool of getVersionsFor
getVersionsFor(c, r) == r \in DOMAIN c.rMap

\* the paired versions v.Is(r) of vMap, as a set (the order is unspecified)
getAllVersions(c) == {Paired(u, c.vMap[u]) : u \in DOMAIN c.vMap}

toRevision(c, v) ==
    IF v.kind = "rev" THEN [r |-> v.r, has |-> TRUE]
    ELSE IF v.kind = "paired" THEN [r |-> v.r, has |-> TRUE]
    ELSE IF v.u \in DOMAIN c.vMap THEN [r |-> c.vMap[v.u], has |-> TRUE]
    ELSE [r |-> "", has |-> FALSE]

\* --------------------------------------------------------- gateway universe
Threads == 1 .. NumThreads

UnpairedVersions == {"v1", "v2"}

Revisions == {"r1", "r2"}

\* the versions callers pass to the gateway
VersionArgs == {Unpaired("v1"), Unpaired("v2"), Rev("r1"), Paired("v1", "r2")}

\* the version lists upstream can hold
UpstreamLists == {<< >>,
                  <<Paired("v1", "r1")>>,
                  <<Paired("v1", "r2"), Paired("v2", "r2")>>}

Listed(list, u) == \E i \in 1 .. Len(list) : list[i].u = u

GatewayURL == "https://x/y"

Ops == {"syncLocal", "checkExistence", "exportVersionTo", "getManifestAndLock",
        "listPackages", "listVersions", "revisionPresentIn", "sourceURL"}

\* the operations that take a Version, and the one that takes a Revision
TakesVersion(op) == op \in {"exportVersionTo", "getManifestAndLock", "listPackages"}

ArgsOf(op) == IF TakesVersion(op) THEN VersionArgs
              ELSE IF op = "revisionPresentIn" THEN {Rev("r1"), Rev("r2")}
              ELSE {Rev("")}

\* the operations whose driver result the gateway stores in its cache
CachedOps == {"getManifestAndLock", "listPackages"}

NoConv == [prior |-> FALSE, present |-> FALSE, miss |-> FALSE, hlvl |-> FALSE,
           calls |-> 0, lv |-> 0, listed |-> FALSE]

IdleThread == [pc |-> "idle", op |-> "", v |-> Rev(""), r |-> "", wanted |-> 0,
               todo |-> 0, k |-> "", err |-> "", ret |-> "", conv |-> NoConv]

InitGateway ==
    /\ sg = newSourceGateway
    /\ mu = 0
    /\ cache = newMemoryCache
    /\ threads = [t \in Threads |-> IdleThread]
    /\ upChanges = 0
    /\ started = 0
    /\ notFound = {}
    /\ driverOk = [x \in CachedOps \X Revisions |-> 0]

\* ------------------------------------------------ cache used on its own
CacheThreads == 1 .. NumCacheThreads

Analyzers == {"an"}

\* the lists handed to storeVersionMap; the last one binds v1 twice
CacheLists == UpstreamLists \cup {<<Paired("v1", "r1"), Paired("v1", "r2")>>}

IdleCacheThread == [pc |-> "idle", op |-> "", r |-> "", list |-> << >>,
                    flush |-> FALSE, raced |-> FALSE, fatal |-> FALSE,
                    res |-> {}]

InitCacheThreads ==
    /\ cmut = 0
    /\ cthreads = [t \in CacheThreads |-> IdleCacheThread]
    /\ cacheOps = 0

\* ------------------------------------------------------------ call manager
ctHTTPMetadata == 0
ctListVersions == 1
ctGetManifestAndLock == 2

ManagerCalls == 1 .. NumCalls

\* callInfo{name, typ}
CallNames == {"fetch", "other"}

CallTypes == {ctListVersions, ctGetManifestAndLock}

NoCallInfo == <<"", ctHTTPMetadata>>

\* the zero value of durCount, read from cm.ran for a type it does not hold
zeroDurCount == [count |-> 0, dur |-> 0]

newCallManager ==
    /\ running = EmptyMap
    /\ ran = EmptyMap
    /\ cancelled = FALSE

InitManager ==
    /\ newCallManager
    /\ calls = [c \in ManagerCalls |->
                  [pc |-> "idle", ci |-> NoCallInfo, at |-> 0]]
    /\ now = 0

newSourceCoordinator ==
    /\ srcs = EmptyMap
    /\ nameToURL = EmptyMap
    /\ protoSrcs = EmptyMap
    /\ srcmut = 0
    /\ psrcmut = 0

InitCallers ==
    /\ callers = [c \in Callers |->
                    [pc |-> "idle", name |-> "", sg |-> NilGw, err |-> ""]]
    /\ workers = [c \in Callers |->
                    [pc |-> "none", owner |-> FALSE, sa |-> NilGw, err |-> "",
                     url |-> "", idx |-> 0]]
    /\ gws = [c \in Callers |-> newSourceGateway]
    /\ deduceCalls = [n \in Names |-> 0]

\* Spec and FairSpec: the coordinator starts empty; the stand-alone gateway of
\* GatewaySpec is not used.
Init ==
    /\ newSourceCoordinator /\ InitCallers /\ InitGateway /\ upstream = << >>
    /\ InitCacheThreads /\ InitManager

\* GatewaySpec: a new gateway over any upstream version list; the coordinator
\* is not used.
GatewayInit ==
    /\ newSourceCoordinator /\ InitCallers /\ InitGateway
    /\ upstream \in UpstreamLists
    /\ InitCacheThreads /\ InitManager

\* ------------------------------------------------------------- require
\* requireStep with sg.srcState = flag in place of sg.srcState |= flag.
requireStepAssigns(g, flag, out) ==
    IF flag = sourceIsSetUp
    THEN [g EXCEPT !.src = out.ok,
                   !.url = IF out.ok THEN out.url ELSE "",
                   !.srcState = IF out.ok THEN flag ELSE @]
    ELSE [g EXCEPT !.srcState = IF out.ok THEN flag ELSE @]

\* requireStep that forgets to record has-latest-version-list.
requireStepSkipsBit(g, flag, out) ==
    IF flag = sourceIsSetUp
    THEN [g EXCEPT !.src = out.ok,
                   !.url = IF out.ok THEN out.url ELSE "",
                   !.srcState = IF out.ok THEN SetBit(@, flag) ELSE @]
    ELSE [g EXCEPT !.srcState =
             IF out.ok /\ flag # sourceHasLatestVersionList
             THEN SetBit(@, flag) ELSE @]

\* requireStep that sets the bit before looking at the error.
requireStepSetsOnError(g, flag, out) ==
    IF flag = sourceIsSetUp
    THEN [g EXCEPT !.src = out.ok,
                   !.url = IF out.ok THEN out.url ELSE "",
                   !.srcState = SetBit(@, flag)]
    ELSE [g EXCEPT !.srcState = SetBit(@, flag)]

\* One executed iteration of require's loop on gateway g: the acquisition step
\* of `flag` with driver outcome out = [ok, url]; the bit is set on success
\* only, and maybe.try assigns src and url whatever its outcome.
requireStep(g, flag, out) ==
    IF flag = sourceIsSetUp
    THEN [g EXCEPT !.src = out.ok,
                   !.url = IF out.ok THEN out.url ELSE "",
                   !.srcState = IF out.ok THEN SetBit(@, flag) ELSE @]
    ELSE [g EXCEPT !.srcState = IF out.ok THEN SetBit(@, flag) ELSE @]

\* --------------------------------------------- getSourceGatewayFor: caller
NameOf(w) == callers[w].name

\* nameToURL[n] and srcs[url] both present: the fast path's double lookup
HasGateway(n) == n \in DOMAIN nameToURL /\ nameToURL[n] \in DOMAIN srcs

\* Entry and fast path under srcmut.RLock (lines 161-170).
getSourceGatewayFor(c, n) ==
    /\ callers[c].pc = "idle"
    /\ srcmut = 0
    /\ callers' = [callers EXCEPT ![c] =
          IF HasGateway(n)
          THEN [@ EXCEPT !.pc = "done", !.name = n, !.sg = srcs[nameToURL[n]]]
          ELSE [@ EXCEPT !.pc = "slow", !.name = n]]
    /\ UNCHANGED <<gatewayVars, otherVars, srcs, nameToURL, protoSrcs, srcmut,
                   psrcmut, workers, gws, deduceCalls>>

\* rc := srcReturnChans{...}; go func() {...}() (lines 174-181).
Spawn(c) ==
    /\ callers[c].pc = "slow"
    /\ callers' = [callers EXCEPT ![c].pc = "spawned"]
    /\ workers' = [workers EXCEPT ![c].pc = "register"]
    /\ UNCHANGED <<gatewayVars, otherVars, srcs, nameToURL, protoSrcs, srcmut,
                   psrcmut, gws, deduceCalls>>

\* return rc.awaitReturn(): the caller blocks in the select (lines 130-136, 273).
awaitReturn(c) ==
    /\ callers[c].pc = "spawned"
    /\ callers' = [callers EXCEPT ![c].pc = "await"]
    /\ UNCHANGED <<gatewayVars, otherVars, srcs, nameToURL, protoSrcs, srcmut,
                   psrcmut, workers, gws, deduceCalls>>

\* --------------------------------------------- getSourceGatewayFor: worker
\* Register without the lookup of protoSrcs: every worker becomes an owner.
RegisterAlwaysOwner(w) ==
    /\ workers[w].pc = "register"
    /\ psrcmut = 0
    /\ protoSrcs' = Put(protoSrcs, NameOf(w),
                        IF NameOf(w) \in DOMAIN protoSrcs
                        THEN Append(protoSrcs[NameOf(w)], w) ELSE <<w>>)
    /\ workers' = [workers EXCEPT ![w].pc = "deduce", ![w].owner = TRUE]
    /\ UNCHANGED <<gatewayVars, otherVars, srcs, nameToURL, srcmut, psrcmut,
                   callers, gws, deduceCalls>>

\* Register whose folding branch forgets to attach the return channels.
RegisterDropsJoiner(w) ==
    /\ workers[w].pc = "register"
    /\ psrcmut = 0
    /\ IF NameOf(w) \in DOMAIN protoSrcs
       THEN /\ protoSrcs' = protoSrcs
            /\ workers' = [workers EXCEPT ![w].pc = "exit"]
       ELSE /\ protoSrcs' = Put(protoSrcs, NameOf(w), <<w>>)
            /\ workers' = [workers EXCEPT ![w].pc = "deduce", ![w].owner = TRUE]
    /\ UNCHANGED <<gatewayVars, otherVars, srcs, nameToURL, srcmut, psrcmut,
                   callers, gws, deduceCalls>>

\* Lines 182-192: fold into a pending resolution, or become its owner.
Register(w) ==
    /\ workers[w].pc = "register"
    /\ psrcmut = 0
    /\ IF NameOf(w) \in DOMAIN protoSrcs
       THEN /\ protoSrcs' = [protoSrcs EXCEPT ![NameOf(w)] = Append(@, w)]
            /\ workers' = [workers EXCEPT ![w].pc = "exit"]
       ELSE /\ protoSrcs' = Put(protoSrcs, NameOf(w), <<w>>)
            /\ workers' = [workers EXCEPT ![w].pc = "deduce", ![w].owner = TRUE]
    /\ UNCHANGED <<gatewayVars, otherVars, srcs, nameToURL, srcmut, psrcmut,
                   callers, gws, deduceCalls>>

\* pd, err := sc.deducer.deduceRootPath(normalizedName) (lines 212-218).
Deduce(w) ==
    /\ workers[w].pc = "deduce"
    /\ deduceCalls' = [deduceCalls EXCEPT ![NameOf(w)] = @ + 1]
    /\ \E ok \in BOOLEAN :
          workers' = [workers EXCEPT ![w] =
             IF ok THEN [@ EXCEPT !.pc = "recheck"]
             ELSE [@ EXCEPT !.pc = "doReturn", !.sa = NilGw, !.err = "deduce"]]
    /\ UNCHANGED <<gatewayVars, otherVars, srcs, nameToURL, protoSrcs, srcmut,
                   psrcmut, callers, gws>>

\* Second look at the main maps under srcmut.RLock (lines 225-236).
Recheck(w) ==
    /\ workers[w].pc = "recheck"
    /\ srcmut = 0
    /\ workers' = [workers EXCEPT ![w] =
          IF NameOf(w) \in DOMAIN nameToURL
          THEN IF nameToURL[NameOf(w)] \in DOMAIN srcs
               THEN [@ EXCEPT !.pc = "doReturn",
                              !.sa = srcs[nameToURL[NameOf(w)]], !.err = ""]
               ELSE [@ EXCEPT !.pc = "panic"]
          ELSE [@ EXCEPT !.pc = "sourceURL"]]
    /\ UNCHANGED <<gatewayVars, otherVars, srcs, nameToURL, protoSrcs, srcmut,
                   psrcmut, callers, gws, deduceCalls>>

\* srcGate = newSourceGateway(...); srcGate.sourceURL(ctx): the set-up step of
\* require(sourceIsSetUp|sourceExistsLocally), maybe.try (lines 238-250, 498).
SourceURLTry(w) ==
    /\ workers[w].pc = "sourceURL"
    /\ \E ok \in BOOLEAN, u \in Candidates(NameOf(w)) :
          /\ gws' = [gws EXCEPT ![w] =
                requireStep(@, sourceIsSetUp, [ok |-> ok, url |-> u])]
          /\ workers' = [workers EXCEPT ![w] =
                IF ok THEN [@ EXCEPT !.pc = "checkLocal"]
                ELSE [@ EXCEPT !.pc = "doReturn", !.sa = NilGw, !.err = "try"]]
    /\ UNCHANGED <<gatewayVars, otherVars, srcs, nameToURL, protoSrcs, srcmut,
                   psrcmut, callers, deduceCalls>>

\* The exists-locally step of the same require, then return sg.url
\* (lines 250-254, 469-474, 504-508).
SourceURLCheckLocal(w) ==
    /\ workers[w].pc = "checkLocal"
    /\ \E ok \in BOOLEAN :
          /\ gws' = [gws EXCEPT ![w] =
                requireStep(@, sourceExistsLocally, [ok |-> ok, url |-> ""])]
          /\ workers' = [workers EXCEPT ![w] =
                IF ok THEN [@ EXCEPT !.pc = "install", !.url = gws[w].url]
                ELSE [@ EXCEPT !.pc = "doReturn", !.sa = NilGw,
                               !.err = "notlocal"]]
    /\ UNCHANGED <<gatewayVars, otherVars, srcs, nameToURL, protoSrcs, srcmut,
                   psrcmut, callers, deduceCalls>>

\* Install without the lookup of srcs[url]: the new gateway always wins.
InstallOverwrites(w) ==
    /\ workers[w].pc = "install"
    /\ srcmut = 0
    /\ srcmut' = w
    /\ nameToURL' = Put(nameToURL, NameOf(w), workers[w].url)
    /\ srcs' = Put(srcs, workers[w].url, w)
    /\ workers' = [workers EXCEPT ![w].pc = "doReturn", ![w].sa = w, ![w].err = ""]
    /\ UNCHANGED <<gatewayVars, otherVars, protoSrcs, psrcmut, callers, gws,
                   deduceCalls>>

\* Install that records the name only together with a new gateway.
InstallSkipsAliasName(w) ==
    /\ workers[w].pc = "install"
    /\ srcmut = 0
    /\ srcmut' = w
    /\ IF workers[w].url \in DOMAIN srcs
       THEN /\ srcs' = srcs
            /\ nameToURL' = nameToURL
            /\ workers' = [workers EXCEPT ![w].pc = "doReturn",
                                          ![w].sa = srcs[workers[w].url],
                                          ![w].err = ""]
       ELSE /\ srcs' = Put(srcs, workers[w].url, w)
            /\ nameToURL' = Put(nameToURL, NameOf(w), workers[w].url)
            /\ workers' = [workers EXCEPT ![w].pc = "doReturn", ![w].sa = w,
                                          ![w].err = ""]
    /\ UNCHANGED <<gatewayVars, otherVars, protoSrcs, psrcmut, callers, gws,
                   deduceCalls>>

\* Install that records the name and hands the new gateway out without
\* sc.srcs[url] = srcGate.
InstallForgetsGateway(w) ==
    /\ workers[w].pc = "install"
    /\ srcmut = 0
    /\ srcmut' = w
    /\ nameToURL' = Put(nameToURL, NameOf(w), workers[w].url)
    /\ srcs' = srcs
    /\ workers' = [workers EXCEPT ![w].pc = "doReturn",
                                  ![w].sa = IF workers[w].url \in DOMAIN srcs
                                            THEN srcs[workers[w].url] ELSE w,
                                  ![w].err = ""]
    /\ UNCHANGED <<gatewayVars, otherVars, protoSrcs, psrcmut, callers, gws,
                   deduceCalls>>

\* Lines 258-270 up to the call of doReturn: take srcmut for writing, record
\* the name, keep an existing gateway of the URL or install the new one.
Install(w) ==
    /\ workers[w].pc = "install"
    /\ srcmut = 0
    /\ srcmut' = w
    /\ nameToURL' = Put(nameToURL, NameOf(w), workers[w].url)
    /\ IF workers[w].url \in DOMAIN srcs
       THEN /\ srcs' = srcs
            /\ workers' = [workers EXCEPT ![w].pc = "doReturn",
                                          ![w].sa = srcs[workers[w].url],
                                          ![w].err = ""]
       ELSE /\ srcs' = Put(srcs, workers[w].url, w)
            /\ workers' = [workers EXCEPT ![w].pc = "doReturn", ![w].sa = w,
                                          ![w].err = ""]
    /\ UNCHANGED <<gatewayVars, otherVars, protoSrcs, psrcmut, callers, gws,
                   deduceCalls>>

\* doReturn: sc.psrcmut.Lock() and the choice of the channel (lines 194-206).
doReturn(w) ==
    /\ workers[w].pc = "doReturn"
    /\ psrcmut = 0
    /\ psrcmut' = w
    /\ workers' = [workers EXCEPT ![w] =
          IF @.sa = NilGw /\ @.err = ""
          THEN [@ EXCEPT !.pc = "panic"]
          ELSE [@ EXCEPT !.pc = "send", !.idx = 1]]
    /\ UNCHANGED <<gatewayVars, otherVars, srcs, nameToURL, protoSrcs, srcmut,
                   callers, gws, deduceCalls>>

\* One send of the range loop: rc.ret <- sa or rc.err <- err on an unbuffered
\* channel, which completes only with a receiver in awaitReturn's select
\* (lines 197-203, 131-134).
Send(w) ==
    /\ workers[w].pc = "send"
    /\ workers[w].idx <= Len(protoSrcs[NameOf(w)])
    /\ LET t == protoSrcs[NameOf(w)][workers[w].idx]
       IN  /\ callers[t].pc = "await"
           /\ callers' = [callers EXCEPT ![t].pc = "done",
                                         ![t].sg = workers[w].sa,
                                         ![t].err = IF workers[w].sa = NilGw
                                                    THEN workers[w].err ELSE ""]
    /\ workers' = [workers EXCEPT ![w].idx = @ + 1]
    /\ UNCHANGED <<gatewayVars, otherVars, srcs, nameToURL, protoSrcs, srcmut,
                   psrcmut, gws, deduceCalls>>

\* The end of doReturn with the delete done on the success branch only.
doReturnEndKeepsFailed(w) ==
    /\ workers[w].pc = "send"
    /\ workers[w].idx > Len(protoSrcs[NameOf(w)])
    /\ protoSrcs' = IF workers[w].sa = NilGw THEN protoSrcs
                    ELSE Del(protoSrcs, NameOf(w))
    /\ psrcmut' = 0
    /\ workers' = [workers EXCEPT ![w].pc = "return"]
    /\ UNCHANGED <<gatewayVars, otherVars, srcs, nameToURL, srcmut, callers,
                   gws, deduceCalls>>

\* delete(sc.protoSrcs, normalizedName); sc.psrcmut.Unlock() (lines 208-209).
doReturnEnd(w) ==
    /\ workers[w].pc = "send"
    /\ workers[w].idx > Len(protoSrcs[NameOf(w)])
    /\ protoSrcs' = Del(protoSrcs, NameOf(w))
    /\ psrcmut' = 0
    /\ workers' = [workers EXCEPT ![w].pc = "return"]
    /\ UNCHANGED <<gatewayVars, otherVars, srcs, nameToURL, srcmut, callers,
                   gws, deduceCalls>>

\* The goroutine returns; the deferred sc.srcmut.Unlock() runs if it was
\* registered (line 259).
Return(w) ==
    /\ workers[w].pc = "return"
    /\ srcmut' = IF srcmut = w THEN 0 ELSE srcmut
    /\ workers' = [workers EXCEPT ![w].pc = "exit"]
    /\ UNCHANGED <<gatewayVars, otherVars, srcs, nameToURL, protoSrcs,
                   psrcmut, callers, gws, deduceCalls>>

Next ==
    \/ \E c \in Callers, n \in Names : getSourceGatewayFor(c, n)
    \/ \E c \in Callers : Spawn(c)
    \/ \E c \in Callers : awaitReturn(c)
    \/ \E w \in Callers : Register(w)
    \/ \E w \in Callers : Deduce(w)
    \/ \E w \in Callers : Recheck(w)
    \/ \E w \in Callers : SourceURLTry(w)
    \/ \E w \in Callers : SourceURLCheckLocal(w)
    \/ \E w \in Callers : Install(w)
    \/ \E w \in Callers : doReturn(w)
    \/ \E w \in Callers : Send(w)
    \/ \E w \in Callers : doReturnEnd(w)
    \/ \E w \in Callers : Return(w)

Spec == Init /\ [][Next]_vars

\* Every goroutine that can take a step eventually takes one: the deducer and
\* maybe.try terminate, and the Go scheduler starves no runnable goroutine.
FairSpec == Spec /\ WF_vars(Next)

\* ============================================================ sourceGateway
Alive == \A t \in Threads : threads[t].pc # "panic"

\* the error of a failed acquisition step of require
ErrOf(flag) ==
    IF flag = sourceIsSetUp THEN "try"
    ELSE IF flag = sourceExistsUpstream THEN "notUpstream"
    ELSE IF flag = sourceExistsLocally THEN "notLocal"
    ELSE IF flag = sourceHasLatestVersionList THEN "listVersions"
    ELSE "syncLocal"

\* a call of sg.require(ctx, wanted): todo := (^sg.srcState) & wanted
StartRequire(th, wanted, k) ==
    [th EXCEPT !.pc = "require", !.wanted = wanted,
               !.todo = Todo(sg.srcState, wanted), !.k = k, !.err = ""]

\* the method returns; its deferred sg.mu.Unlock() is still to run
Finish(th) == [th EXCEPT !.pc = "unlock"]

\* A thread calls one of the public operations of the gateway and arrives at
\* its sg.mu.Lock().  Which operation it is, and with which arguments, shows
\* only once the lock is taken.
Call(t) ==
    /\ threads[t].pc = "idle"
    /\ Alive
    /\ started < MaxOps
    /\ started' = started + 1
    /\ threads' = [threads EXCEPT ![t].pc = "lock"]
    /\ UNCHANGED <<coordVars, otherVars, driverOk, sg, mu, cache, upstream,
                   upChanges, notFound>>

\* Enter with a syncLocal that asks for has-latest-locally alone.
EnterSyncLocalAlone(th) ==
    IF th.op = "syncLocal"
    THEN StartRequire(th, sourceHasLatestLocally, "op")
    ELSE IF th.op = "checkExistence"
    THEN StartRequire(th, BitOr({sourceIsSetUp, sourceExistsUpstream}), "op")
    ELSE IF th.op = "listVersions"
    THEN StartRequire(th, BitOr({sourceIsSetUp, sourceExistsUpstream,
                                 sourceHasLatestVersionList}), "op")
    ELSE IF th.op \in {"exportVersionTo", "revisionPresentIn", "sourceURL"}
    THEN StartRequire(th, BitOr({sourceIsSetUp, sourceExistsLocally}), "op")
    ELSE [th EXCEPT !.pc = "convert"]

\* the first statement of each operation after sg.mu.Lock()
Enter(th) ==
    IF th.op = "syncLocal"
    THEN StartRequire(th, BitOr({sourceIsSetUp, sourceHasLatestLocally}), "op")
    ELSE IF th.op = "checkExistence"
    THEN StartRequire(th, BitOr({sourceIsSetUp, sourceExistsUpstream}), "op")
    ELSE IF th.op = "listVersions"
    THEN StartRequire(th, BitOr({sourceIsSetUp, sourceExistsUpstream,
                                 sourceHasLatestVersionList}), "op")
    ELSE IF th.op \in {"exportVersionTo", "revisionPresentIn", "sourceURL"}
    THEN StartRequire(th, BitOr({sourceIsSetUp, sourceExistsLocally}), "op")
    ELSE [th EXCEPT !.pc = "convert"]

\* sg.mu.Lock() taken without waiting for the holder.
LockNoWait(t) ==
    /\ threads[t].pc = "lock"
    /\ Alive
    /\ mu' = t
    /\ \E op \in Ops : \E v \in ArgsOf(op) :
          threads' = [threads EXCEPT ![t] = Enter([@ EXCEPT !.op = op, !.v = v])]
    /\ UNCHANGED <<coordVars, otherVars, driverOk, sg, cache, upstream,
                   upChanges, started, notFound>>

\* sg.mu.Lock(); defer sg.mu.Unlock() at the head of every public operation
\* (lines 301, 313, 330, 347, 372, 435, 450, 466), and the operation's first
\* statement.
Lock(t) ==
    /\ threads[t].pc = "lock"
    /\ Alive
    /\ mu = 0
    /\ mu' = t
    /\ \E op \in Ops : \E v \in ArgsOf(op) :
          threads' = [threads EXCEPT ![t] = Enter([@ EXCEPT !.op = op, !.v = v])]
    /\ UNCHANGED <<coordVars, otherVars, driverOk, sg, cache, upstream,
                   upChanges, started, notFound>>

\* what the driver call of an acquisition step does to the cache: the drivers
\* store the version list they read (listVersions always, maybe.try when it
\* reads one while probing), flushing the old one
DriverStores(flag, ok, populate) ==
    ok /\ (flag = sourceHasLatestVersionList \/ (flag = sourceIsSetUp /\ populate))

\* One executed iteration of require's loop: the acquisition step of the
\* lowest bit of todo (lines 488-521).
require(t) ==
    /\ threads[t].pc = "require"
    /\ Alive
    /\ threads[t].todo # 0 /\ threads[t].err = ""
    /\ LET flag == LowestFlag(threads[t].todo)
           inConv == threads[t].k = "convert"
       IN  IF flag # sourceIsSetUp /\ ~sg.src
           THEN /\ threads' = [threads EXCEPT ![t].pc = "panic"]
                /\ UNCHANGED <<sg, cache>>
           ELSE \E ok \in BOOLEAN, populate \in BOOLEAN :
                /\ populate => (ok /\ flag = sourceIsSetUp)
                /\ sg' = requireStep(sg, flag, [ok |-> ok, url |-> GatewayURL])
                /\ cache' = IF DriverStores(flag, ok, populate)
                            THEN storeVersionMap(cache, upstream, TRUE)
                            ELSE cache
                /\ threads' = [threads EXCEPT ![t] =
                      [@ EXCEPT
                         !.todo = IF ok THEN @ - flag ELSE @,
                         !.err = IF ok THEN "" ELSE ErrOf(flag),
                         !.conv = IF ~inConv THEN @
                                  ELSE [@ EXCEPT
                                     !.calls = @ + 1,
                                     !.lv = IF flag = sourceHasLatestVersionList
                                            THEN @ + 1 ELSE @,
                                     !.listed =
                                         IF flag = sourceHasLatestVersionList /\ ok
                                         THEN Listed(upstream, threads[t].v.u)
                                         ELSE @]]]
    /\ UNCHANGED <<coordVars, otherVars, driverOk, mu, upstream, upChanges,
                   started, notFound>>

\* the statements of an operation that follow its call of require
AfterRequire(th) ==
    IF th.k = "convert"
    THEN \* convertToRevision, lines 422-431
         IF th.err # "" THEN [th EXCEPT !.pc = "convertRet"]
         ELSE IF toRevision(cache, th.v).has
              THEN [th EXCEPT !.pc = "convertRet", !.r = toRevision(cache, th.v).r]
              ELSE [th EXCEPT !.pc = "convertRet", !.err = "notfound"]
    ELSE IF th.k = "op2" THEN Finish(th)
    ELSE IF th.op = "checkExistence"
    THEN IF th.err # ""
         THEN StartRequire(th, BitOr({sourceIsSetUp, sourceExistsLocally}), "op2")
         ELSE Finish(th)
    ELSE IF th.op = "exportVersionTo"
    THEN IF th.err # "" THEN Finish(th) ELSE [th EXCEPT !.pc = "convert"]
    ELSE IF th.op = "revisionPresentIn"
    THEN IF th.err # "" THEN Finish(th)
         ELSE IF getVersionsFor(cache, th.v.r)
         THEN Finish([th EXCEPT !.ret = "true"])
         ELSE [th EXCEPT !.pc = "driver"]
    ELSE Finish(th)

\* require returns: todo is empty (return 0, nil) or a step failed
\* (return errState, err); the caller goes on (lines 515-524).
requireReturn(t) ==
    /\ threads[t].pc = "require"
    /\ Alive
    /\ threads[t].todo = 0 \/ threads[t].err # ""
    /\ threads' = [threads EXCEPT ![t] = AfterRequire(@)]
    /\ UNCHANGED <<coordVars, otherVars, driverOk, sg, mu, cache, upstream,
                   upChanges, started, notFound>>

\* convertToRevision that looks at has-latest-version-list before the cache:
\* without the bit it refreshes the list whatever the cache binds.
convertToRevisionRefreshesFirst(t) ==
    /\ threads[t].pc = "convert"
    /\ Alive
    /\ LET th == threads[t]
           tr == toRevision(cache, th.v)
           cv == [prior |-> th.v.kind = "unpaired" /\ th.v.u \in notFound,
                  present |-> Listed(upstream, th.v.u),
                  miss |-> ~tr.has,
                  hlvl |-> HasBit(sg.srcState, sourceHasLatestVersionList),
                  calls |-> 0, lv |-> 0, listed |-> FALSE]
       IN  threads' = [threads EXCEPT ![t] =
              IF ~HasBit(sg.srcState, sourceHasLatestVersionList)
              THEN [StartRequire(th, BitOr({sourceIsSetUp,
                                            sourceHasLatestVersionList}),
                                 "convert") EXCEPT !.conv = cv]
              ELSE IF tr.has
              THEN [th EXCEPT !.pc = "convertRet", !.r = tr.r, !.err = "",
                              !.conv = cv]
              ELSE [th EXCEPT !.pc = "convertRet", !.err = "notfound",
                              !.conv = cv]]
    /\ UNCHANGED <<coordVars, otherVars, driverOk, sg, mu, cache, upstream,
                   upChanges, started, notFound>>

\* convertToRevision up to its call of require (lines 408-421).
convertToRevision(t) ==
    /\ threads[t].pc = "convert"
    /\ Alive
    /\ LET th == threads[t]
           tr == toRevision(cache, th.v)
           cv == [prior |-> th.v.kind = "unpaired" /\ th.v.u \in notFound,
                  present |-> Listed(upstream, th.v.u),
                  miss |-> ~tr.has,
                  hlvl |-> HasBit(sg.srcState, sourceHasLatestVersionList),
                  calls |-> 0, lv |-> 0, listed |-> FALSE]
       IN  threads' = [threads EXCEPT ![t] =
              IF tr.has
              THEN [th EXCEPT !.pc = "convertRet", !.r = tr.r, !.err = "",
                              !.conv = cv]
              ELSE IF HasBit(sg.srcState, sourceHasLatestVersionList)
              THEN [th EXCEPT !.pc = "convertRet", !.err = "notfound",
                              !.conv = cv]
              ELSE [StartRequire(th, BitOr({sourceIsSetUp,
                                            sourceHasLatestVersionList}),
                                 "convert") EXCEPT !.conv = cv]]
    /\ UNCHANGED <<coordVars, otherVars, driverOk, sg, mu, cache, upstream,
                   upChanges, started, notFound>>

\* AfterConvert without the lookups in the cache.
AfterConvertNoCache(th) ==
    IF th.err # "" THEN Finish(th)
    ELSE [th EXCEPT !.pc = "driver"]

\* the statements of an operation that follow its call of convertToRevision
AfterConvert(th) ==
    IF th.err # "" THEN Finish(th)
    ELSE IF th.op = "getManifestAndLock" /\ getProjectInfo(cache, th.r, "an")
    THEN Finish(th)
    ELSE IF th.op = "listPackages" /\ getPackageTree(cache, th.r)
    THEN Finish(th)
    ELSE [th EXCEPT !.pc = "driver"]

\* convertToRevision returns to exportVersionTo, getManifestAndLock or
\* listPackages, which look into the cache (lines 338-343, 350-358, 375-383).
convertReturn(t) ==
    /\ threads[t].pc = "convertRet"
    /\ Alive
    /\ notFound' = IF threads[t].err = "notfound" /\ threads[t].conv.lv > 0
                   THEN notFound \cup {threads[t].v.u} ELSE notFound
    /\ threads' = [threads EXCEPT ![t] = AfterConvert(@)]
    /\ UNCHANGED <<coordVars, otherVars, driverOk, sg, mu, cache, upstream,
                   upChanges, started>>

\* The operation's own call of the source driver: sg.src.exportVersionTo,
\* getManifestAndLock, listPackages or revisionPresentIn, and the store of a
\* result into the cache (lines 343, 360-366, 385-391, 462).  A nil sg.src
\* panics.
Driver(t) ==
    /\ threads[t].pc = "driver"
    /\ Alive
    /\ IF ~sg.src
       THEN /\ threads' = [threads EXCEPT ![t].pc = "panic"]
            /\ UNCHANGED <<cache, driverOk>>
       ELSE \E ok \in BOOLEAN :
            /\ threads' = [threads EXCEPT ![t] =
                  Finish([@ EXCEPT !.err = IF ok THEN "" ELSE "driver",
                                   !.ret = IF ok THEN "driver" ELSE ""])]
            /\ driverOk' = IF ok /\ threads[t].op \in CachedOps
                           THEN [driverOk EXCEPT
                                   ![<<threads[t].op, threads[t].r>>] = @ + 1]
                           ELSE driverOk
            /\ cache' = IF ~ok THEN cache
                        ELSE IF threads[t].op = "getManifestAndLock"
                        THEN setProjectInfo(cache, threads[t].r, "an", "pi")
                        ELSE IF threads[t].op = "listPackages"
                        THEN setPackageTree(cache, threads[t].r, "ptree")
                        ELSE cache
    /\ UNCHANGED <<coordVars, otherVars, sg, mu, upstream, upChanges, started,
                   notFound>>

\* The deferred sg.mu.Unlock(): the operation has returned.
Unlock(t) ==
    /\ threads[t].pc = "unlock"
    /\ Alive
    /\ mu' = 0
    /\ threads' = [threads EXCEPT ![t] = IdleThread]
    /\ UNCHANGED <<coordVars, otherVars, driverOk, sg, cache, upstream,
                   upChanges, started, notFound>>

\* Upstream gains or loses versions, or moves a version to another revision.
UpstreamChange ==
    /\ Alive
    /\ upChanges < MaxUpstreamChanges
    /\ upChanges' = upChanges + 1
    /\ \E l \in UpstreamLists \ {upstream} : upstream' = l
    /\ UNCHANGED <<coordVars, otherVars, driverOk, sg, mu, cache, threads,
                   started, notFound>>

GatewayNext ==
    \/ \E t \in Threads : Call(t)
    \/ \E t \in Threads : Lock(t)
    \/ \E t \in Threads : require(t)
    \/ \E t \in Threads : requireReturn(t)
    \/ \E t \in Threads : convertToRevision(t)
    \/ \E t \in Threads : convertReturn(t)
    \/ \E t \in Threads : Driver(t)
    \/ \E t \in Threads : Unlock(t)
    \/ UpstreamChange

GatewaySpec == GatewayInit /\ [][GatewayNext]_vars

\* ====================================================== singleSourceCache
\* A cache used directly by several threads.  Every operation but
\* getAllVersions starts with c.mut.Lock(); which operation a thread runs, and
\* with which arguments, shows when its body runs.

\* a thread calls an operation of the cache
CacheCall(t) ==
    /\ cthreads[t].pc = "idle"
    /\ cacheOps < MaxCacheOps
    /\ cacheOps' = cacheOps + 1
    /\ cthreads' = [cthreads EXCEPT ![t].pc = "called"]
    /\ UNCHANGED <<coordVars, gatewayVars, managerVars, cmut>>

\* c.mut.Lock() (lines 74, 91, 104, 116, 123, 144, 161, 174, 190)
CacheLock(t) ==
    /\ cthreads[t].pc = "called"
    /\ cmut = 0
    /\ cmut' = t
    /\ cthreads' = [cthreads EXCEPT ![t].pc = "locked"]
    /\ UNCHANGED <<coordVars, gatewayVars, managerVars, cacheOps>>

\* the thread has run its body under the lock; c.mut.Unlock() is next
AfterBody(th, op, r, list, flush) ==
    [th EXCEPT !.pc = "unlock", !.op = op, !.r = r, !.list = list,
               !.flush = flush]

\* the body of setProjectInfo (lines 75-86)
CacheSetProjectInfo(t) ==
    /\ cthreads[t].pc = "locked"
    /\ \E r \in Revisions, an \in Analyzers :
          /\ cache' = setProjectInfo(cache, r, an, "pi")
          /\ cthreads' = [cthreads EXCEPT ![t] =
                AfterBody(@, "setProjectInfo", r, << >>, FALSE)]
    /\ UNCHANGED <<coordVars, managerVars, cmut, cacheOps, sg, mu, threads,
                   upstream, upChanges, started, notFound, driverOk>>

\* the body of setPackageTree (lines 105-111)
CacheSetPackageTree(t) ==
    /\ cthreads[t].pc = "locked"
    /\ \E r \in Revisions :
          /\ cache' = setPackageTree(cache, r, "ptree")
          /\ cthreads' = [cthreads EXCEPT ![t] =
                AfterBody(@, "setPackageTree", r, << >>, FALSE)]
    /\ UNCHANGED <<coordVars, managerVars, cmut, cacheOps, sg, mu, threads,
                   upstream, upChanges, started, notFound, driverOk>>

\* the body of storeVersionMap (lines 124-139); a getAllVersions that is
\* ranging over c.vMap meanwhile has the map written under it
CacheStoreVersionMap(t) ==
    /\ cthreads[t].pc = "locked"
    /\ \E list \in CacheLists, flush \in BOOLEAN :
          /\ cache' = storeVersionMap(cache, list, flush)
          /\ cthreads' = [x \in CacheThreads |->
                IF x = t
                THEN AfterBody(cthreads[x], "storeVersionMap", "", list, flush)
                ELSE IF cthreads[x].pc = "range"
                THEN [cthreads[x] EXCEPT !.raced = TRUE]
                ELSE cthreads[x]]
    /\ UNCHANGED <<coordVars, managerVars, cmut, cacheOps, sg, mu, threads,
                   upstream, upChanges, started, notFound, driverOk>>

\* the body of getVersionsFor (line 145)
CacheGetVersionsFor(t) ==
    /\ cthreads[t].pc = "locked"
    /\ \E r \in Revisions :
          cthreads' = [cthreads EXCEPT ![t] =
             [AfterBody(@, "getVersionsFor", r, << >>, FALSE)
                 EXCEPT !.res = IF getVersionsFor(cache, r) THEN {r} ELSE {}]]
    /\ UNCHANGED <<coordVars, gatewayVars, managerVars, cmut, cacheOps>>

\* c.mut.Unlock() and the return of the operation
CacheUnlock(t) ==
    /\ cthreads[t].pc = "unlock"
    /\ cmut' = 0
    /\ cthreads' = [cthreads EXCEPT ![t] = IdleCacheThread]
    /\ UNCHANGED <<coordVars, gatewayVars, managerVars, cacheOps>>

\* getAllVersions starts to range over c.vMap; it takes no lock
\* (lines 151-154).
getAllVersionsRange(t) ==
    /\ cthreads[t].pc = "called"
    /\ cthreads' = [cthreads EXCEPT ![t] =
          [@ EXCEPT !.pc = "range", !.op = "getAllVersions"]]
    /\ UNCHANGED <<coordVars, gatewayVars, managerVars, cmut, cacheOps>>

\* The range loop of getAllVersions ends (lines 154-157).  When vMap was
\* written during the loop the run is a data race: the runtime may stop the
\* program ("concurrent map iteration and map write") or the loop may have
\* seen any part of the bindings.
getAllVersionsEnd(t) ==
    /\ cthreads[t].pc = "range"
    /\ IF cthreads[t].raced
       THEN \E fatal \in BOOLEAN, seen \in SUBSET getAllVersions(cache) :
               /\ fatal => seen = {}
               /\ cthreads' = [cthreads EXCEPT ![t] =
                     [@ EXCEPT !.pc = "ret", !.fatal = fatal, !.res = seen]]
       ELSE cthreads' = [cthreads EXCEPT ![t] =
               [@ EXCEPT !.pc = "ret", !.res = getAllVersions(cache)]]
    /\ UNCHANGED <<coordVars, gatewayVars, managerVars, cmut, cacheOps>>

\* return vlist (line 157)
getAllVersionsReturn(t) ==
    /\ cthreads[t].pc = "ret"
    /\ ~cthreads[t].fatal
    /\ cthreads' = [cthreads EXCEPT ![t] = IdleCacheThread]
    /\ UNCHANGED <<coordVars, gatewayVars, managerVars, cmut, cacheOps>>

CacheNext ==
    \/ \E t \in CacheThreads : CacheCall(t)
    \/ \E t \in CacheThreads : CacheLock(t)
    \/ \E t \in CacheThreads : CacheSetProjectInfo(t)
    \/ \E t \in CacheThreads : CacheSetPackageTree(t)
    \/ \E t \in CacheThreads : CacheStoreVersionMap(t)
    \/ \E t \in CacheThreads : CacheGetVersionsFor(t)
    \/ \E t \in CacheThreads : CacheUnlock(t)
    \/ \E t \in CacheThreads : getAllVersionsRange(t)
    \/ \E t \in CacheThreads : getAllVersionsEnd(t)
    \/ \E t \in CacheThreads : getAllVersionsReturn(t)

\* a new cache (newMemoryCache) used by CacheThreads
CacheSpec == Init /\ [][CacheNext]_vars

\* ============================================================ callManager
\* setUpCall that restarts the clock of a key that is already running.
setUpCallRestartsClock(c, name, typ) ==
    /\ calls[c].pc = "idle"
    /\ LET ci == <<name, typ>>
       IN  IF cancelled
           THEN /\ calls' = [calls EXCEPT ![c].pc = "failed"]
                /\ running' = running
           ELSE /\ running' =
                      Put(running, ci,
                          [count |-> IF ci \in DOMAIN running
                                     THEN running[ci].count + 1 ELSE 1,
                           start |-> now])
                /\ calls' = [calls EXCEPT ![c] =
                      [pc |-> "running", ci |-> ci, at |-> now]]
    /\ UNCHANGED <<coordVars, gatewayVars, cacheVars, ran, now, cancelled>>

\* setUpCall and its cm.run(ci), all of it under cm.mu (lines 44-60, 66-85):
\* an error when the lifetime context is cancelled, else the key is counted
\* once more or entered with count 1 and the current time.
setUpCall(c, name, typ) ==
    /\ calls[c].pc = "idle"
    /\ LET ci == <<name, typ>>
       IN  IF cancelled
           THEN /\ calls' = [calls EXCEPT ![c].pc = "failed"]
                /\ running' = running
           ELSE /\ running' =
                      IF ci \in DOMAIN running
                      THEN [running EXCEPT ![ci].count = @ + 1]
                      ELSE Put(running, ci, [count |-> 1, start |-> now])
                /\ calls' = [calls EXCEPT ![c] =
                      [pc |-> "running", ci |-> ci, at |-> now]]
    /\ UNCHANGED <<coordVars, gatewayVars, cacheVars, ran, now, cancelled>>

\* done that takes every disposer for the last one of its key.
doneAlwaysLast(c) ==
    /\ calls[c].pc = "running"
    /\ LET ci == calls[c].ci
           durCnt == IF ci[2] \in DOMAIN ran THEN ran[ci[2]] ELSE zeroDurCount
       IN  IF ci \notin DOMAIN running
           THEN /\ calls' = [calls EXCEPT ![c].pc = "panic"]
                /\ UNCHANGED <<running, ran>>
           ELSE /\ ran' = Put(ran, ci[2],
                              [count |-> durCnt.count + 1,
                               dur |-> durCnt.dur + (now - running[ci].start)])
                /\ running' = Del(running, ci)
                /\ calls' = [calls EXCEPT ![c].pc = "disposed"]
    /\ UNCHANGED <<coordVars, gatewayVars, cacheVars, now, cancelled>>

\* The disposer returned by setUpCall: cm.done(ci), all of it under cm.mu
\* (lines 56-59, 87-109).
done(c) ==
    /\ calls[c].pc = "running"
    /\ LET ci == calls[c].ci
           durCnt == IF ci[2] \in DOMAIN ran THEN ran[ci[2]] ELSE zeroDurCount
       IN  IF ci \notin DOMAIN running
           THEN /\ calls' = [calls EXCEPT ![c].pc = "panic"]
                /\ UNCHANGED <<running, ran>>
           ELSE IF running[ci].count > 1
           THEN /\ running' = [running EXCEPT ![ci].count = @ - 1]
                /\ ran' = ran
                /\ calls' = [calls EXCEPT ![c].pc = "disposed"]
           ELSE /\ ran' = Put(ran, ci[2],
                              [count |-> durCnt.count + 1,
                               dur |-> durCnt.dur + (now - running[ci].start)])
                /\ running' = Del(running, ci)
                /\ calls' = [calls EXCEPT ![c].pc = "disposed"]
    /\ UNCHANGED <<coordVars, gatewayVars, cacheVars, now, cancelled>>

\* time passes between two calls of time.Now()
Tick ==
    /\ now < MaxTime
    /\ now' = now + 1
    /\ UNCHANGED <<coordVars, gatewayVars, cacheVars, running, ran, calls,
                   cancelled>>

\* cm.cancelFunc(): the lifetime context is cancelled (lines 33-36)
Cancel ==
    /\ ~cancelled
    /\ cancelled' = TRUE
    /\ UNCHANGED <<coordVars, gatewayVars, cacheVars, running, ran, calls,
                   now>>

ManagerNext ==
    \/ \E c \in ManagerCalls, name \in CallNames, typ \in CallTypes :
          setUpCall(c, name, typ)
    \/ \E c \in ManagerCalls : done(c)
    \/ Tick
    \/ Cancel

\* a new call manager (newCallManager) used by ManagerCalls
ManagerSpec == Init /\ [][ManagerNext]_vars

\* ====================================================== coordinator claims
Returned(c) == callers[c].pc = "done" /\ callers[c].sg # NilGw

Failed(c) == callers[c].pc = "done" /\ callers[c].sg = NilGw

\* positions of an owning worker from its registration to the end of doReturn
InFlightPcs == {"deduce", "recheck", "sourceURL", "checkLocal", "install",
                "doReturn", "send"}

InFlight(n) == {w \in Callers : /\ NameOf(w) = n
                                /\ workers[w].owner
                                /\ workers[w].pc \in InFlightPcs}

Owners(n) == {w \in Callers : NameOf(w) = n /\ workers[w].owner}

\* C1: calls that succeed for names resolving to the same URL return the same
\* gateway: a returned gateway is the one installed at srcs[nameToURL[name]],
\* its url is that URL, srcs[U] holds a gateway whose url is U, and an entry of
\* srcs, once installed, is never replaced or removed.
C1_SharedState ==
    /\ \A c \in Callers : Returned(c) =>
          /\ HasGateway(callers[c].name)
          /\ srcs[nameToURL[callers[c].name]] = callers[c].sg
          /\ gws[callers[c].sg].url = nameToURL[callers[c].name]
    /\ \A c1, c2 \in Callers :
          (/\ Returned(c1) /\ Returned(c2)
           /\ nameToURL[callers[c1].name] = nameToURL[callers[c2].name])
          => callers[c1].sg = callers[c2].sg
    /\ \A u \in DOMAIN srcs : gws[srcs[u]].url = u

C1_NeverReplaced ==
    \A u \in DOMAIN srcs : u \in DOMAIN srcs' /\ srcs'[u] = srcs[u]

\* C1: the state part holds in every state and the step part on every step.
C1_OneGatewayPerURL == [](C1_SharedState) /\ [][C1_NeverReplaced]_vars

\* C1 witness: two callers with different (alias) names hold the same gateway.
C1_Witness ==
    \E c1, c2 \in Callers :
        /\ Returned(c1) /\ Returned(c2)
        /\ callers[c1].name # callers[c2].name
        /\ callers[c1].sg = callers[c2].sg
        /\ workers[c1].pc = "exit" /\ workers[c2].pc = "exit"

\* C2 as stated: when no resolution of n has failed, all slow-path calls for n
\* (each started while no gateway was registered for n) share one
\* deduceRootPath(n) invocation.
C2_DeduceExactlyOnce ==
    \A n \in Names :
        (\A w \in Callers : NameOf(w) = n => workers[w].err = "")
        => deduceCalls[n] <= 1

\* C2 amended: at most one resolution of n is in flight at any time;
\* protoSrcs[n] exists exactly while an owner of n is between its registration
\* and the end of its doReturn, every worker registering meanwhile is attached
\* as a waiter, and the deducer is invoked at most once per owner.
C2_OneInFlight ==
    \A n \in Names :
        /\ Cardinality(InFlight(n)) <= 1
        /\ (n \in DOMAIN protoSrcs) <=> (InFlight(n) # {})
        /\ deduceCalls[n] <= Cardinality(Owners(n))
        /\ n \in DOMAIN protoSrcs =>
              /\ protoSrcs[n][1] \in InFlight(n)
              /\ \A i \in 2 .. Len(protoSrcs[n]) :
                    /\ ~workers[protoSrcs[n][i]].owner
                    /\ workers[protoSrcs[n][i]].pc = "exit"

\* C2 witness: a second worker has been folded into a resolution whose single
\* deducer call has been made.
C2_Witness ==
    \E n \in DOMAIN protoSrcs :
        /\ Len(protoSrcs[n]) >= 2
        /\ deduceCalls[n] = 1
        /\ \E w \in InFlight(n) : workers[w].pc = "recheck"

\* a gateway in the middle of the driver calls of its sourceURL: maybe.try has
\* settled on its URL and checkExistence is next
SettingUp(g) == workers[g].pc = "checkLocal"

\* a gateway handed out through srcs, on which callers run operations
Installed(g) == \E u \in DOMAIN srcs : srcs[u] = g

\* C3: while a gateway does the set-up work (maybe.try, checkExistence) of a
\* URL, no other gateway of that URL is installed or doing that work too: a
\* source has one writer.
C3_OneWriterPerSource ==
    \A g1, g2 \in Callers :
        (g1 # g2 /\ SettingUp(g1) /\ (SettingUp(g2) \/ Installed(g2)))
        => gws[g1].url # gws[g2].url

\* C4: every caller ends with exactly one value, a gateway or an error; under
\* fair scheduling every call returns and every worker goroutine ends with both
\* locks released: no waiter stays blocked in awaitReturn and no owner stays
\* blocked in a send or on a lock.
C4_OneValue ==
    \A c \in Callers : callers[c].pc = "done" =>
        (callers[c].sg # NilGw) # (callers[c].err # "")

\* every call has returned, every worker goroutine has ended, both locks are free
AllReturned ==
    /\ \A c \in Callers : callers[c].pc = "done"
    /\ \A w \in Callers : workers[w].pc \in {"none", "exit"}
    /\ srcmut = 0 /\ psrcmut = 0

\* C4: exactly one value per call always, and eventually everything returned.
C4_EveryWaiterReturns == [](C4_OneValue) /\ <>AllReturned

\* C4 witness: an owner has sent to two waiters while holding both locks.
C4_Witness ==
    \E w \in Callers :
        /\ workers[w].pc = "send" /\ workers[w].idx = 3
        /\ srcmut = w /\ psrcmut = w
        /\ \A i \in 1 .. 2 : Returned(protoSrcs[NameOf(w)][i])

\* C5 as stated: once a call for n has returned a gateway, nameToURL[n] and
\* srcs[nameToURL[n]] exist and protoSrcs has no entry for n.
C5_NoProtoAfterReturn ==
    \A c \in Callers : Returned(c) =>
        /\ HasGateway(callers[c].name)
        /\ callers[c].name \notin DOMAIN protoSrcs

\* C5 amended: once a call for n has returned a gateway, nameToURL[n] and
\* srcs[nameToURL[n]] exist; an entry protoSrcs[n] belongs to an owner that is
\* still in flight (the one finishing its broadcast, or a late one), and
\* whenever the protoSrcs lock is free no entry of a finished broadcast remains.
C5_ResolvedState ==
    /\ \A c \in Callers : Returned(c) =>
          /\ HasGateway(callers[c].name)
          /\ callers[c].name \in DOMAIN protoSrcs =>
                InFlight(callers[c].name) # {}
    /\ psrcmut = 0 =>
          \A n \in DOMAIN protoSrcs :
              \E w \in InFlight(n) : workers[w].pc # "send"

\* C5 witness: a caller holds its gateway while protoSrcs still has its name.
C5_Witness ==
    \E c \in Callers :
        /\ Returned(c)
        /\ callers[c].name \in DOMAIN protoSrcs
        /\ workers[c].owner

\* C6: a failing resolution changes neither srcs nor nameToURL, hands its error
\* to every waiter attached to the name and removes protoSrcs[n].
C6_FailingStep ==
    \A w \in Callers :
        (workers[w] # workers'[w] /\ workers'[w].sa = NilGw /\ workers'[w].err # "")
        => /\ srcs' = srcs
           /\ nameToURL' = nameToURL
           /\ (workers[w].pc = "send" /\ workers'[w].pc = "return") =>
                 /\ NameOf(w) \notin DOMAIN protoSrcs'
                 /\ \A i \in 1 .. Len(protoSrcs[NameOf(w)]) :
                       LET t == protoSrcs[NameOf(w)][i]
                       IN  Failed(t) /\ callers[t].err = workers[w].err

\* C6: every step of a failing resolution is such a step.
C6_ErrorsNotCached == [][C6_FailingStep]_vars

\* C6 witness: a call for a name failed, the deducer ran again for that name
\* and a later call for it holds a gateway.
C6_Witness ==
    \E c1, c2 \in Callers :
        /\ Failed(c1) /\ Returned(c2)
        /\ callers[c1].name = callers[c2].name
        /\ workers[c1].owner /\ workers[c2].owner
        /\ workers[c1].pc = "exit"
        /\ deduceCalls[callers[c1].name] = 2

\* ========================================================== gateway claims
\* positions of a public operation between its sg.mu.Lock() and its return
InsidePcs == {"require", "convert", "convertRet", "driver", "unlock"}

Inside == {t \in Threads : threads[t].pc \in InsidePcs}

\* C7: the public operations of one gateway exclude each other from the
\* moment they hold sg.mu to their return: at most one thread is inside an
\* operation, and it is the holder of the lock.
C7_MutualExclusion ==
    /\ Cardinality(Inside) <= 1
    /\ \A t \in Inside : mu = t

\* C7 witness: one thread is in a driver call of an operation while another
\* has called an operation and waits for the lock.
C7_Witness ==
    \E t1, t2 \in Threads :
        /\ threads[t1].pc = "driver" /\ sg.src
        /\ threads[t2].pc = "lock"

\* C8: no step of any operation clears a readiness bit of srcState.
C8_BitsKept ==
    \A f \in Flags : HasBit(sg.srcState, f) => HasBit(sg.srcState', f)

\* C8: srcState is monotonically non-decreasing over every step.
C8_Monotonic == [][C8_BitsKept]_vars

\* C8 witness: an acquisition step has failed on a gateway that has bits set.
C8_Witness ==
    \E t \in Threads :
        /\ threads[t].pc = "require" /\ threads[t].err = "syncLocal"
        /\ HasBit(sg.srcState, sourceIsSetUp)
        /\ HasBit(sg.srcState, sourceExistsLocally)

\* a thread whose convertToRevision is about to return
Converted(t) == threads[t].pc = "convertRet"

\* the refresh of convertToRevision, if it ran, ran without a driver failure
RefreshWorked(t) == threads[t].err \notin {"try", "listVersions"}

\* C9 as stated: convertToRevision of an unpaired version that the driver's
\* list does not contain, on a gateway without has-latest-version-list,
\* refreshes the list once, fails with not-found and leaves the bit set; a
\* later convertToRevision of that version fails without any driver call.
C9_RefreshThenFail ==
    \A t \in Threads : Converted(t) =>
        /\ (/\ threads[t].v.kind = "unpaired"
            /\ ~threads[t].conv.hlvl
            /\ ~threads[t].conv.present /\ ~threads[t].conv.listed
            /\ RefreshWorked(t))
           => /\ threads[t].err = "notfound"
              /\ threads[t].conv.lv = 1
              /\ HasBit(sg.srcState, sourceHasLatestVersionList)
        /\ threads[t].conv.prior
           => threads[t].err = "notfound" /\ threads[t].conv.calls = 0

\* C9 amended: the same, for a version the cache holds no binding for when
\* convertToRevision is called.
C9_RefreshThenFailOnMiss ==
    \A t \in Threads : Converted(t) =>
        /\ (/\ threads[t].v.kind = "unpaired"
            /\ threads[t].conv.miss
            /\ ~threads[t].conv.hlvl
            /\ ~threads[t].conv.present /\ ~threads[t].conv.listed
            /\ RefreshWorked(t))
           => /\ threads[t].err = "notfound"
              /\ threads[t].conv.lv = 1
              /\ HasBit(sg.srcState, sourceHasLatestVersionList)
        /\ threads[t].conv.prior
           => threads[t].err = "notfound" /\ threads[t].conv.calls = 0

\* C9 witness: a second convertToRevision of a version that an earlier,
\* refreshing convertToRevision did not find is about to return.
C9_Witness ==
    \E t \in Threads :
        /\ Converted(t)
        /\ threads[t].conv.prior
        /\ threads[t].conv.hlvl

\* C10 as stated: a lookup of a version that was not found before succeeds
\* once upstream holds the version.
C10_RepairedLookupSucceeds ==
    \A t \in Threads :
        (Converted(t) /\ threads[t].conv.prior /\ threads[t].conv.present)
        => threads[t].err = ""

\* C10 amended: a failed readiness step (existence upstream or locally, try,
\* listVersions, syncLocal) leaves its bit unset, so the next require asks the
\* driver again; but a version that a refreshed lookup did not find stays
\* not-found on that gateway without another driver call, also when upstream
\* holds it by then.
C10_NotFoundKept ==
    \A t \in Threads :
        /\ (threads[t].pc = "require" /\ threads[t].err # "")
           => /\ ~HasBit(sg.srcState, LowestFlag(threads[t].todo))
              /\ threads[t].err = ErrOf(LowestFlag(threads[t].todo))
        /\ (Converted(t) /\ threads[t].conv.prior /\ threads[t].conv.present)
           => /\ threads[t].err = "notfound"
              /\ threads[t].conv.calls = 0
              /\ threads[t].v.u \notin DOMAIN cache.vMap

\* C10 witness: a lookup of a version not found before is about to return
\* while upstream lists the version.
C10_Witness ==
    \E t \in Threads :
        /\ Converted(t)
        /\ threads[t].conv.prior /\ threads[t].conv.present
        /\ upChanges > 0

\* the binding of the cache that a thread's convertToRevision is called with
BoundAtCall(t) ==
    /\ threads[t].pc = "convert"
    /\ threads[t].v.kind = "unpaired"
    /\ threads[t].v.u \in DOMAIN cache.vMap

\* C11: a step of convertToRevision(u) made while vMap binds u to r returns r
\* at once: no call of require (so none of the driver), srcState and the cache
\* unchanged, whatever bits are set; and once has-latest-version-list is set
\* no step changes a binding, so a second call returns the same revision.
C11_BindingStep ==
    /\ \A t \in Threads :
          (BoundAtCall(t) /\ threads'[t] # threads[t])
          => /\ threads'[t].pc = "convertRet"
             /\ threads'[t].err = ""
             /\ threads'[t].r = cache.vMap[threads[t].v.u]
             /\ threads'[t].conv.calls = 0
             /\ sg' = sg /\ cache' = cache
    /\ HasBit(sg.srcState, sourceHasLatestVersionList)
       => cache'.vMap = cache.vMap

\* C11: every step is such a step.
C11_BindingRespected == [][C11_BindingStep]_vars

\* C11 witness: convertToRevision is about to return the revision the cache
\* binds to a version that upstream has dropped since the list was loaded.
C11_Witness ==
    \E t \in Threads :
        /\ Converted(t)
        /\ threads[t].v.kind = "unpaired"
        /\ ~threads[t].conv.miss /\ threads[t].conv.hlvl
        /\ ~threads[t].conv.present
        /\ threads[t].err = "" /\ threads[t].r = cache.vMap[threads[t].v.u]

\* ============================================================ cache claims
\* a thread whose storeVersionMap has just run its body
Stored(t) == cthreads[t].pc = "unlock" /\ cthreads[t].op = "storeVersionMap"

\* the step of thread t is the body of storeVersionMap
StoreStep(t) == cthreads[t].pc = "locked" /\ Stored(t)'

\* the unpaired versions a list binds to revision r, in the order of the list
UnpairedOf(list, r) ==
    LET s == SelectSeq(list, LAMBDA pv : pv.r = r)
    IN  [i \in 1 .. Len(s) |-> s[i].u]

Elems(s) == {s[i] : i \in 1 .. Len(s)}

\* C12: every revision that keys ptrees or an infos[a], or that vMap binds a
\* version to, is a key of rMap.
C12_Complete ==
    /\ DOMAIN cache.ptrees \subseteq DOMAIN cache.rMap
    /\ \A a \in DOMAIN cache.infos : DOMAIN cache.infos[a] \subseteq DOMAIN cache.rMap
    /\ \A u \in DOMAIN cache.vMap : cache.vMap[u] \in DOMAIN cache.rMap

\* C12: no step removes a key of rMap, and a flushing storeVersionMap leaves
\* under every old key only what its own list binds to it.
C12_KeysKept ==
    /\ DOMAIN cache.rMap \subseteq DOMAIN cache'.rMap
    /\ \A t \in CacheThreads :
          (StoreStep(t) /\ cthreads'[t].flush)
          => /\ \A r \in DOMAIN cache.rMap :
                   cache'.rMap[r] = UnpairedOf(cthreads'[t].list, r)
             /\ DOMAIN cache'.vMap = {pv.u : pv \in Elems(cthreads'[t].list)}

\* C12: rMap is complete in every state and its key set never shrinks.
C12_RMapComplete == [](C12_Complete) /\ [][C12_KeysKept]_vars

\* C12 witness: a flushing store has emptied the sequence of a revision that
\* still keys ptrees, and has bound versions to another revision.
C12_Witness ==
    \E t \in CacheThreads, r \in DOMAIN cache.rMap :
        /\ Stored(t) /\ cthreads[t].flush
        /\ r \in DOMAIN cache.ptrees
        /\ cache.rMap[r] = << >>
        /\ cache.vMap # EmptyMap

\* vMap[u] = r implies u in rMap[r]
Forward(c) ==
    \A u \in DOMAIN c.vMap :
        c.vMap[u] \in DOMAIN c.rMap /\ u \in Elems(c.rMap[c.vMap[u]])

\* u in rMap[r] implies vMap[u] = r
Converse(c) ==
    \A r \in DOMAIN c.rMap : \A u \in Elems(c.rMap[r]) :
        u \in DOMAIN c.vMap /\ c.vMap[u] = r

\* C13 as stated: vMap and rMap are mutual inverses, whatever was stored.
C13_MutualInverses == Forward(cache) /\ Converse(cache)

\* the list binds each unpaired version to one revision, the one vMap keeps
\* for it when the store does not flush
SingleBinding(c, list, flush) ==
    /\ \A pv, pw \in Elems(list) : pv.u = pw.u => pv.r = pw.r
    /\ flush \/ \A pv \in Elems(list) :
                   pv.u \in DOMAIN c.vMap => c.vMap[pv.u] = pv.r

C13_StoreKeepsConverse ==
    \A t \in CacheThreads :
        (/\ StoreStep(t)
         /\ SingleBinding(cache, cthreads'[t].list, cthreads'[t].flush)
         /\ cthreads'[t].flush \/ Converse(cache))
        => Converse(cache')

\* C13 amended: vMap[u] = r implies u in rMap[r] in every state; the converse
\* is kept by a store whose list binds each unpaired version to one revision,
\* the one already bound when the store does not flush.
C13_ForwardInverse == [](Forward(cache)) /\ [][C13_StoreKeepsConverse]_vars

\* C13 witness: after a store, a version stands in the sequence of a revision
\* that vMap no longer binds it to.
C13_Witness ==
    \E t \in CacheThreads :
        /\ Stored(t)
        /\ Forward(cache) /\ ~Converse(cache)

\* C14: no getAllVersions ranges over vMap while storeVersionMap writes it.
C14_NoReadOverlapsWrite ==
    \A t \in CacheThreads : cthreads[t].pc = "range" => ~cthreads[t].raced

\* ===================================================== call manager claims
CallKeys == CallNames \X CallTypes

\* the calls registered under k whose disposer has not run
Outstanding(k) == {c \in ManagerCalls : calls[c].pc = "running" /\ calls[c].ci = k}

\* the step is the disposer of call c
Disposes(c) == calls[c].pc = "running" /\ calls'[c].pc = "disposed"

\* the step is a successful setUpCall of call c
Registers(c) == calls[c].pc = "idle" /\ calls'[c].pc = "running"

\* C15: k is in running exactly when a call registered under k has not run
\* its disposer, and running[k].count is the number of such calls.
C15_Counts ==
    /\ DOMAIN running \subseteq CallKeys
    /\ \A k \in CallKeys :
          /\ (k \in DOMAIN running) <=> (Outstanding(k) # {})
          /\ k \in DOMAIN running =>
                /\ running[k].count = Cardinality(Outstanding(k))
                /\ running[k].count >= 1

\* C15: an entry is removed only by a disposer of its key, at count 1.
C15_Removal ==
    \A k \in DOMAIN running :
        k \notin DOMAIN running'
        => /\ running[k].count = 1
           /\ \E c \in ManagerCalls : Disposes(c) /\ calls[c].ci = k

\* C15: the count is the number of outstanding calls in every state, and the
\* entry goes with the disposer that brings it from 1 to 0.
C15_RunningCounts == [](C15_Counts) /\ [][C15_Removal]_vars

\* C15 witness: two calls were registered under one key; one has run its
\* disposer, which left the entry with count 1 for the outstanding one.
C15_Witness ==
    \E k \in DOMAIN running, c \in ManagerCalls :
        /\ running[k].count = 1
        /\ calls[c].pc = "disposed" /\ calls[c].ci = k

\* ran[typ], the zero value when the type has no entry
RanOf(rn, typ) == IF typ \in DOMAIN rn THEN rn[typ] ELSE zeroDurCount

\* C16: a duplicate registration leaves the start of the key (and ran)
\* unchanged; a disposer that is not the last of its key leaves ran
\* unchanged; the last one adds 1 to ran[type].count and now - start to
\* ran[type].duration, and changes no other type.
C16_Step ==
    \A c \in ManagerCalls :
        /\ (Registers(c) /\ calls'[c].ci \in DOMAIN running)
           => /\ running'[calls'[c].ci].start = running[calls'[c].ci].start
              /\ ran' = ran
        /\ (Disposes(c) /\ Cardinality(Outstanding(calls[c].ci)) > 1)
           => ran' = ran
        /\ (Disposes(c) /\ Cardinality(Outstanding(calls[c].ci)) = 1)
           => /\ RanOf(ran', calls[c].ci[2]).count
                    = RanOf(ran, calls[c].ci[2]).count + 1
              /\ RanOf(ran', calls[c].ci[2]).dur
                    = RanOf(ran, calls[c].ci[2]).dur
                      + (now - running[calls[c].ci].start)
              /\ \A typ \in CallTypes \ {calls[c].ci[2]} :
                    RanOf(ran', typ) = RanOf(ran, typ)

\* the start of a running key is the time of the first registration of its
\* group: no outstanding call registered before it, and the group's first
\* call, if still outstanding, registered at it
C16_FirstStart ==
    \A k \in DOMAIN running : \A c \in Outstanding(k) :
        running[k].start <= calls[c].at

\* C16: every step of the call manager is such a step.
C16_GroupMetrics == [](C16_FirstStart) /\ [][C16_Step]_vars

\* C16 witness: two overlapping calls of one key, registered at different
\* times, have both run their disposers and ran counts one group.
C16_Witness ==
    \E c1, c2 \in ManagerCalls :
        /\ c1 # c2
        /\ calls[c1].pc = "disposed" /\ calls[c2].pc = "disposed"
        /\ calls[c1].ci = calls[c2].ci
        /\ calls[c1].at < calls[c2].at
        /\ running = EmptyMap
        /\ RanOf(ran, calls[c1].ci[2]) = [count |-> 1, dur |-> MaxTime]

\* ================================================== gateway claims, require
\* thread t is inside a call of require
InRequire(t) == threads[t].pc = "require"

\* the step of thread t is the return of its call of require (the thread may
\* go on into another call, as checkExistence does)
Returns(t) == ~InRequire(t)' \/ threads'[t].k # threads[t].k

\* f is the lowest bit of wanted that state s lacks
FirstMissing(s, wanted, f) ==
    /\ f \in Flags
    /\ HasBit(wanted, f) /\ ~HasBit(s, f)
    /\ \A g \in Flags : (g < f /\ HasBit(wanted, g)) => HasBit(s, g)

\* C17, in a state: while require runs without an error, todo is what wanted
\* asks for and srcState lacks; after a failed step the bit whose error is
\* returned is the lowest missing bit of wanted, and it is not set.
C17_State ==
    \A t \in Threads : InRequire(t) =>
        IF threads[t].err = ""
        THEN threads[t].todo = Todo(sg.srcState, threads[t].wanted)
        ELSE \E f \in Flags :
                /\ threads[t].err = ErrOf(f)
                /\ FirstMissing(sg.srcState, threads[t].wanted, f)

\* C17, on a step of a thread that is in require: an acquisition step is that
\* of the lowest missing bit of wanted, sets that bit and no other on success
\* and none on failure; after a failure no further step is attempted; require
\* returns without error only with all of wanted set; no bit is cleared.
C17_Step ==
    \A t \in Threads : (InRequire(t) /\ threads'[t] # threads[t]) =>
        /\ \A f \in Flags : HasBit(sg.srcState, f) => HasBit(sg'.srcState, f)
        /\ threads[t].err # "" => (Returns(t) /\ sg' = sg)
        /\ (threads[t].err = "" /\ ~Returns(t))
           => \E f \in Flags :
                 /\ FirstMissing(sg.srcState, threads[t].wanted, f)
                 /\ IF threads'[t].err = ""
                    THEN sg'.srcState = sg.srcState + f
                    ELSE sg'.srcState = sg.srcState /\ threads'[t].err = ErrOf(f)
        /\ (threads[t].err = "" /\ Returns(t))
           => /\ sg' = sg
              /\ \A f \in Flags :
                    HasBit(threads[t].wanted, f) => HasBit(sg.srcState, f)

\* C17: require acquires the missing bits of wanted lowest first and stops at
\* the first failure.
C17_LowestFirst == [](C17_State) /\ [][C17_Step]_vars

\* C17 witness: the require of listVersions has acquired exists-upstream in
\* this call and failed at has-latest-version-list.
C17_Witness ==
    \E t \in Threads :
        /\ InRequire(t) /\ threads[t].op = "listVersions"
        /\ threads[t].err = ErrOf(sourceHasLatestVersionList)
        /\ HasBit(sg.srcState, sourceExistsUpstream)
        /\ ~HasBit(sg.srcState, sourceHasLatestVersionList)
        /\ ~HasBit(sg.srcState, sourceHasLatestLocally)

\* C18 as stated: has-latest-locally set implies exists-locally set, and any
\* bit set implies set-up set.
C18_LowerBitsSet ==
    /\ HasBit(sg.srcState, sourceHasLatestLocally)
       => HasBit(sg.srcState, sourceExistsLocally)
    /\ sg.srcState # 0 => HasBit(sg.srcState, sourceIsSetUp)

\* set-up is set and the driver is there
IsSetUp == HasBit(sg.srcState, sourceIsSetUp) /\ sg.src

\* an acquisition step of thread t's require that is not maybe.try: a step of
\* the driver's checkExistence, listVersions or syncLocal, which has set its
\* bit or failed with its error
DriverStep(t) ==
    /\ InRequire(t) /\ threads[t].err = ""
    /\ threads'[t] # threads[t] /\ ~Returns(t)
    /\ \E f \in Flags \ {sourceIsSetUp} :
          \/ sg'.srcState = sg.srcState + f
          \/ threads'[t].err = ErrOf(f)

C18_DriverStepAfterSetUp ==
    \A t \in Threads :
        /\ DriverStep(t) => IsSetUp
        /\ InRequire(t) => threads'[t].pc # "panic"

\* C18 amended: any bit set implies set-up set (and the driver present), and
\* the steps of the driver's checkExistence, listVersions and syncLocal run
\* only with set-up set; exists-locally is no precondition of syncLocal.
C18_SetUpFirst ==
    /\ [](sg.srcState # 0 => IsSetUp)
    /\ [][C18_DriverStepAfterSetUp]_vars

\* C18 witness: syncLocal has acquired has-latest-locally on a gateway that
\* has set-up but not exists-locally.
C18_Witness ==
    \E t \in Threads :
        /\ threads[t].op = "syncLocal" /\ threads[t].pc = "unlock"
        /\ threads[t].err = ""
        /\ HasBit(sg.srcState, sourceHasLatestLocally)
        /\ HasBit(sg.srcState, sourceIsSetUp)
        /\ ~HasBit(sg.srcState, sourceExistsLocally)

\* ============================================ gateway claims, driver calls
\* thread t is about to call a method of sg.src for its operation
AtDriver(t) == threads[t].pc = "driver"

\* C19: an operation calls a method of sg.src only with set-up set.
C19_DriverOnlyAfterSetUp ==
    \A t \in Threads : AtDriver(t) => HasBit(sg.srcState, sourceIsSetUp)

\* thread t's operation op has returned to its deferred Unlock
Done(t, op) == threads[t].pc = "unlock" /\ threads[t].op = op

\* the cache holds the result of a cached operation for revision r
Holds(op, r) ==
    IF op = "getManifestAndLock" THEN getProjectInfo(cache, r, "an")
    ELSE getPackageTree(cache, r)

\* for each revision the driver's getManifestAndLock and listPackages have
\* succeeded at most once; the driver is called only on a miss
C20_AtMostOnce ==
    /\ \A x \in CachedOps \X Revisions : driverOk[x] <= 1
    /\ \A t \in Threads : AtDriver(t) =>
          /\ threads[t].op \in CachedOps => ~Holds(threads[t].op, threads[t].r)
          /\ threads[t].op = "revisionPresentIn"
                => threads[t].v.r \notin DOMAIN cache.rMap

\* C20 as stated: at most one driver success per revision, and
\* revisionPresentIn(r) returns true whenever r is a key of rMap.
C20_ElidesDriver ==
    /\ C20_AtMostOnce
    /\ \A t \in Threads :
          (Done(t, "revisionPresentIn") /\ threads[t].v.r \in DOMAIN cache.rMap)
          => threads[t].ret = "true"

\* revisionPresentIn(r) with r a key of rMap returns true without a call of
\* the driver's revisionPresentIn when its require has succeeded, and the
\* error of require otherwise
C20_PresentWhenReady ==
    \A t \in Threads :
        (Done(t, "revisionPresentIn") /\ threads[t].v.r \in DOMAIN cache.rMap)
        => IF threads[t].err = "" THEN threads[t].ret = "true"
           ELSE /\ threads[t].ret = ""
                /\ threads[t].err \in {ErrOf(sourceIsSetUp),
                                        ErrOf(sourceExistsLocally)}

\* a driver call of a cached operation stores its result on success, and
\* on an error stores nothing and hands the error on; a stored result stays
C20_DriverStep ==
    /\ \A t \in Threads :
          (AtDriver(t) /\ threads[t].op \in CachedOps /\ Done(t, threads[t].op)')
          => IF threads'[t].err = ""
             THEN Holds(threads[t].op, threads[t].r)'
             ELSE /\ threads'[t].err = "driver"
                  /\ cache' = cache /\ driverOk' = driverOk
    /\ \A op \in CachedOps, r \in Revisions : Holds(op, r) => Holds(op, r)'

\* C20 amended: the same, with revisionPresentIn answering true from rMap
\* once its require has succeeded.
C20_ElidesDriverWhenReady ==
    /\ [](C20_AtMostOnce /\ C20_PresentWhenReady)
    /\ [][C20_DriverStep]_vars

\* C20 witness: a second getManifestAndLock of a revision has returned from
\* the cache, without a driver call, what the first one stored.
C20_Witness ==
    \E t \in Threads :
        /\ Done(t, "getManifestAndLock")
        /\ threads[t].err = "" /\ threads[t].ret = ""
        /\ driverOk[<<"getManifestAndLock", threads[t].r>>] = 1
        /\ getProjectInfo(cache, threads[t].r, "an")

\* ============================================ coordinator claims, the maps
\* the gateway registered for URL u is a working gateway of u
Working(u) ==
    /\ srcs[u] # NilGw
    /\ gws[srcs[u]].url = u
    /\ gws[srcs[u]].src
    /\ HasBit(gws[srcs[u]].srcState, sourceIsSetUp)
    /\ HasBit(gws[srcs[u]].srcState, sourceExistsLocally)

\* C21: every value of nameToURL is a key of srcs, the gateway at srcs[U] has
\* set-up and exists-locally set and url = U, and no worker is in the panic
\* of the re-check ("nameToURL[N] without srcs[url]") or of doReturn ("sa and
\* err both nil"): a worker entering doReturn carries a gateway or an error.
C21_MapsConsistent ==
    /\ \A n \in DOMAIN nameToURL : nameToURL[n] \in DOMAIN srcs
    /\ \A u \in DOMAIN srcs : Working(u)
    /\ \A w \in Callers :
          /\ workers[w].pc # "panic"
          /\ workers[w].pc = "doReturn"
                => (workers[w].sa # NilGw) # (workers[w].err # "")

\* C21 witness: the re-check of a late owner has found nameToURL[N] and the
\* gateway at srcs[nameToURL[N]], installed meanwhile by another worker.
C21_Witness ==
    \E w \in Callers :
        /\ workers[w].pc = "doReturn" /\ workers[w].owner
        /\ workers[w].url = ""
        /\ NameOf(w) \in DOMAIN nameToURL
        /\ workers[w].sa = srcs[nameToURL[NameOf(w)]]
        /\ workers[w].sa # w

====
